---- MODULE Spec2Model ----
(***************************************************************************)
(* Stock consistency of the back-office API (produits app).                *)
(*                                                                         *)
(* The datastore rows that the stock rules touch are the state: the        *)
(* products' current_stock, the sales with their status code and line      *)
(* items, the stock entries with their status and line items.  Quantities  *)
(* and stocks are DecimalField(10, 2) values; they are counted here in     *)
(* hundredths, as integers, and stay far below the ten-digit capacity of   *)
(* the column.                                                             *)
(*                                                                         *)
(* Spec     : requests executed one at a time, one action per handler.     *)
(* SpecConc : two complete_sale requests whose datastore operations        *)
(*            (SELECT / UPDATE) interleave.                                *)
(* SpecSaleItem, SpecEntryItem : the writes of one SaleItem / EntryItem.    *)
(* SpecLedger  : creation and update of sales, creation of entries and     *)
(*               expenses.                                                 *)
(* SpecApi     : the API writes that carry a client-supplied total.        *)
(* SpecExpense : generate_expense on a recurring expense.                  *)
(* SpecCatalog : product updates and the low_stock listing.                *)
(* SpecUsers   : user accounts and reset_password.                         *)
(* SpecAdjust  : adjust_stock.                                             *)
(* SpecBulk    : bulk_update_products.                                     *)
(* SpecOneSale, SpecRace : complete_sale and cancel_sale from a known      *)
(*               stock, one at a time and interleaved.                     *)
(* SpecValidate : validate_sale_data followed by complete_sale.            *)
(* SpecFormset : the line items of a sale saved in the admin.              *)
(* SpecReports : the reporting views.                                      *)
(***************************************************************************)
EXTENDS Integers, Sequences, FiniteSets, TLC

\* ------------------------------------------------------------------ bounds
\* largest current_stock a product starts with
MaxStock == 2
\* largest quantity of one line item (quantity >= 0.01, i.e. >= 1 here)
MaxQty == 2
\* largest number of generate_expense requests sent for one recurring expense
MaxRequests == 2

\* ---------------------------------------------------------------- universe
Products == {"p1", "p2"}
Sales    == {"s1", "s2"}
Entries  == {"e1"}
Reqs     == {"r1", "r2"}

\* SaleStatus lookup rows (SaleStatus.code); 'completed' and 'cancelled' are
\* the codes the views look up, 'pending' stands for any other row.
SaleStatusCodes == {"pending", "completed", "cancelled"}

\* Entry.status choices declared by the model field
STATUS_CHOICES == {"DRAFT", "PENDING", "COMPLETED", "CANCELLED"}

\* a SaleItem / EntryItem row, reduced to the fields the stock rules read
Items == [product : Products, quantity : 1..MaxQty]

\* the line items of one sale or entry, in the order items.all() yields them:
\* none, one, or two (two items are enough for a repeated product and for a
\* failure after a first item went through)
ItemLists == {<< >>} \cup {<<a>> : a \in Items} \cup {<<a, b>> : a \in Items, b \in Items}

ShortItemLists == {<< >>} \cup {<<a>> : a \in Items}

VARIABLES
    stock,          \* Product.current_stock, per product (datastore)
    saleStatus,     \* Sale.status.code, per existing sale (datastore)
    saleItems,      \* sale.items, per existing sale
    entryStatus,    \* Entry.status, per entry (datastore)
    entryItems,     \* entry.items, per entry
    resp,           \* the response of the last request (Spec)
    requested,      \* history: validate_entry was requested on the entry
    credited,       \* history: quantity validate_entry added, per entry and product
    req,            \* SpecConc: the in-flight complete_sale requests
    saleAmounts,    \* Sale.subtotal, discount_amount, tax_amount, total_amount
                    \* (SpecReports: sale_date, total_amount, is_take_away)
    saleItemRows,   \* SaleItem rows: quantity, unit_price, discount, tax_rate, total_price
    entryItemRows,  \* EntryItem rows: quantity, unit_price, total_price
    expenses,       \* Expense rows, in the order they were inserted
    recurring,      \* RecurringExpense rows
    catalog,        \* Product.alert_threshold, is_active, prices, category, per product
    sent,           \* the total the client put in the last write request
    directory       \* the User rows (by email) and the Customer rows

\* the rows of the monetary ledgers and of the catalog
ledgerVars == <<saleItemRows, entryItemRows, expenses, recurring, catalog, sent>>

vars == <<stock, saleStatus, saleItems, entryStatus, entryItems, resp,
          requested, credited, req, saleAmounts, ledgerVars, directory>>

\* ----------------------------------------------------------------- helpers
\* total quantity of the items of a list that are for product p
RECURSIVE SumQty(_, _)
SumQty(items, p) ==
    IF items = << >> THEN 0
    ELSE (IF Head(items).product = p THEN Head(items).quantity ELSE 0)
         + SumQty(Tail(items), p)

NoResponse == [op |-> "none", target |-> "none", code |-> 0, error |-> "none",
               prev |-> "none"]

Response(op, target, code, error, prev) ==
    [op |-> op, target |-> target, code |-> code, error |-> error, prev |-> prev]

IdleRequest == [pc |-> "idle", sale |-> "none", status |-> "none",
                products |-> [p \in Products |-> 0],
                loaded |-> [p \in Products |-> 0],
                i |-> 0, code |-> 0, error |-> "none"]

\* ------------------------------------------------------- the save() methods
\* Amounts are DecimalField(10, 2) values.  The ledgers below hold whole
\* numbers (units, percent), for which the two-decimal column stores every
\* computed total exactly; a SaleItem total, which may have two decimals, is
\* counted in hundredths.

\* models.py:633-635  Sale.save
Sale_save_keeps_total(row) == row

Sale_save(row) ==
    [row EXCEPT !.total_amount = row.subtotal - row.discount_amount + row.tax_amount]

\* a Sale row whose amounts are all the field defaults (0)
DefaultAmounts == [reference |-> "R1", subtotal |-> 0, discount_amount |-> 0,
                   tax_amount |-> 0, total_amount |-> 0]

\* Product.alert_threshold default (5.00, in hundredths like the stock) and
\* Product.is_active default; the prices and the category a product was
\* created with, and the user who last updated it
DefaultCatalog ==
    [p \in Products |-> [alert_threshold |-> 500, is_active |-> TRUE,
                         selling_price |-> 100, purchase_price |-> 60,
                         category |-> "c1", updated_by |-> "none"]]

\* no user account and no customer
NoDirectory == [users |-> << >>, customers |-> << >>]

\* no row of the ledgers exists and no write request was made
NoLedger ==
    /\ saleItemRows = << >>
    /\ entryItemRows = << >>
    /\ expenses = << >>
    /\ recurring = << >>
    /\ catalog = DefaultCatalog
    /\ sent = "none"
    /\ directory = NoDirectory

\* ------------------------------------------------- complete_sale, the rules
\* views.py:292  if sale.status.code == 'completed'
already_completed_never(code) == FALSE

already_completed(code) == code = "completed"

\* views.py:307  if product.current_stock >= item.quantity
has_stock_unchecked(current_stock, quantity) == TRUE

has_stock(current_stock, quantity) == current_stock >= quantity

\* views.py:306-315, the loop over sale.items.all() from item i on.  products
\* holds the current_stock of the Product instances the request works on:
\* prefetch_related('items__product') gives the items of one product one
\* shared instance, so a second item of that product sees the first
\* decrement.  saved is the datastore as the product.save() calls leave it.
\* The loop returns at the first item without enough stock; what was saved
\* before stays saved.
RECURSIVE decrement_stocks(_, _, _, _)
decrement_stocks(items, i, products, saved) ==
    IF i > Len(items) THEN [products |-> products, saved |-> saved, error |-> "none"]
    ELSE LET product  == items[i].product
             quantity == items[i].quantity
         IN  IF has_stock(products[product], quantity)
             THEN LET after == products[product] - quantity
                  IN  decrement_stocks(items, i + 1,
                                       [products EXCEPT ![product] = after],
                                       [saved EXCEPT ![product] = after])
             ELSE [products |-> products, saved |-> saved,
                   error |-> "Insufficient stock"]

\* ------------------------------------------------ validate_entry, the rules
\* views.py:2052  if entry.status == 'validated'
already_validated_never(status) == FALSE

already_validated(status) == status = "validated"

\* views.py:2065  product.current_stock += item.quantity
credit_one(current_stock, quantity) == current_stock + 1

credit(current_stock, quantity) == current_stock + quantity

\* views.py:2063-2066, the loop over entry.items.all() (the same shared
\* Product instances as in complete_sale; every item is saved)
RECURSIVE credit_stocks(_, _, _)
credit_stocks(items, i, products) ==
    IF i > Len(items) THEN products
    ELSE LET product == items[i].product
         IN  credit_stocks(items, i + 1,
                 [products EXCEPT ![product] = credit(@, items[i].quantity)])

\* ----------------------------------------------------------- initial states
\* one sale and one entry, any line items, any stock
Init ==
    /\ stock \in [Products -> 0..MaxStock]
    /\ saleItems \in [{"s1"} -> ItemLists]
    /\ saleStatus = [s \in {"s1"} |-> "pending"]
    /\ entryItems \in [Entries -> ItemLists]
    /\ entryStatus \in [Entries -> STATUS_CHOICES]
    /\ resp = NoResponse
    /\ requested = [e \in Entries |-> FALSE]
    /\ credited = [e \in Entries |-> [p \in Products |-> 0]]
    /\ req = [r \in Reqs |-> IdleRequest]
    /\ saleAmounts = [s \in {"s1"} |-> DefaultAmounts]
    /\ NoLedger

\* ------------------------------------------------- requests, one at a time
\* POST sales/<s>/complete_sale/   views.py:287-320
complete_sale(s) ==
    /\ s \in DOMAIN saleStatus
    /\ IF already_completed(saleStatus[s])
       THEN /\ resp' = Response("complete_sale", s, 400, "Sale is already completed",
                                saleStatus[s])
            /\ UNCHANGED <<stock, saleStatus, saleAmounts>>
       ELSE LET done == decrement_stocks(saleItems[s], 1, stock, stock)
            IN  /\ saleStatus' = [saleStatus EXCEPT ![s] = "completed"]
                /\ saleAmounts' = [saleAmounts EXCEPT ![s] = Sale_save(@)]
                /\ stock' = done.saved
                /\ resp' = IF done.error = "none"
                           THEN Response("complete_sale", s, 200, "none", saleStatus[s])
                           ELSE Response("complete_sale", s, 400, done.error,
                                         saleStatus[s])
    /\ UNCHANGED <<directory, saleItems, entryStatus, entryItems, requested, credited, req,
                   ledgerVars>>

\* a cancellation that puts the quantities of the sale back into the stock
cancel_sale_restocking(s) ==
    /\ s \in DOMAIN saleStatus
    /\ saleStatus' = [saleStatus EXCEPT ![s] = "cancelled"]
    /\ stock' = [p \in Products |-> stock[p] + SumQty(saleItems[s], p)]
    /\ resp' = Response("cancel_sale", s, 200, "none", saleStatus[s])
    /\ UNCHANGED <<directory, saleItems, entryStatus, entryItems, requested, credited, req,
                   saleAmounts, ledgerVars>>

\* POST sales/<s>/cancel_sale/   views.py:322-345
cancel_sale(s) ==
    /\ s \in DOMAIN saleStatus
    /\ IF saleStatus[s] = "cancelled"
       THEN /\ resp' = Response("cancel_sale", s, 400, "Sale is already cancelled",
                                saleStatus[s])
            /\ UNCHANGED <<saleStatus, saleAmounts>>
       ELSE /\ saleStatus' = [saleStatus EXCEPT ![s] = "cancelled"]
            /\ saleAmounts' = [saleAmounts EXCEPT ![s] = Sale_save(@)]
            /\ resp' = Response("cancel_sale", s, 200, "none", saleStatus[s])
    /\ UNCHANGED <<directory, stock, saleItems, entryStatus, entryItems, requested, credited, req,
                   ledgerVars>>

\* POST entries/<e>/validate_entry/   views.py:2047-2072
validate_entry(e) ==
    /\ e \in Entries
    /\ requested' = [requested EXCEPT ![e] = TRUE]
    /\ IF already_validated(entryStatus[e])
       THEN /\ resp' = Response("validate_entry", e, 400, "Entry is already validated",
                                entryStatus[e])
            /\ UNCHANGED <<stock, entryStatus, credited>>
       ELSE /\ entryStatus' = [entryStatus EXCEPT ![e] = "validated"]
            /\ stock' = credit_stocks(entryItems[e], 1, stock)
            /\ credited' = [credited EXCEPT ![e] =
                              [p \in Products |-> @[p] + stock'[p] - stock[p]]]
            /\ resp' = Response("validate_entry", e, 200, "none", entryStatus[e])
    /\ UNCHANGED <<directory, saleStatus, saleItems, entryItems, req, saleAmounts, ledgerVars>>

Next ==
    \/ \E s \in Sales : complete_sale(s)
    \/ \E s \in Sales : cancel_sale(s)
    \/ \E e \in Entries : validate_entry(e)

Spec == Init /\ [][Next]_vars

\* ------------------------------------- complete_sale requests, interleaved
\* Each datastore operation of the handler is one step; what the handler
\* computes between two operations belongs to the step of the next one.
\*   idle     -> sale      get_object(): SELECT of the sale row (with status)
\*   sale     -> checked   prefetch: SELECT of the items' products
\*   checked  -> items     status test, sale.save()  (or -> done, 400)
\*   items    -> items     one item: test, product.save()  (or -> done)
InitConc ==
    /\ stock \in [Products -> 0..MaxStock]
    /\ saleItems \in {f \in [Sales -> ItemLists] : f["s2"] \in ShortItemLists}
    /\ saleStatus = [s \in Sales |-> "pending"]
    /\ entryItems = [e \in Entries |-> << >>]
    /\ entryStatus = [e \in Entries |-> "DRAFT"]
    /\ resp = NoResponse
    /\ requested = [e \in Entries |-> FALSE]
    /\ credited = [e \in Entries |-> [p \in Products |-> 0]]
    /\ req = [r \in Reqs |-> IdleRequest]
    /\ saleAmounts = [s \in Sales |-> DefaultAmounts]
    /\ NoLedger

\* views.py:306  product = item.product : the instance the prefetch loaded
\* when the request began, not a fresh read of the row
item_product_refetched(r, product) == stock[product]

item_product(r, product) == req[r].products[product]

\* views.py:289  sale = self.get_object(), the sale row
get_object(r, s) ==
    /\ req[r].pc = "idle"
    /\ s \in DOMAIN saleStatus
    /\ req' = [req EXCEPT ![r] = [@ EXCEPT !.pc = "sale", !.sale = s,
                                           !.status = saleStatus[s]]]
    /\ UNCHANGED <<directory, stock, saleStatus, saleItems, entryStatus, entryItems, resp,
                   requested, credited, saleAmounts, ledgerVars>>

\* views.py:162-164  prefetch_related('items__product'), the product rows
prefetch_products(r) ==
    /\ req[r].pc = "sale"
    /\ req' = [req EXCEPT ![r] = [@ EXCEPT !.pc = "checked", !.products = stock,
                                           !.loaded = stock]]
    /\ UNCHANGED <<directory, stock, saleStatus, saleItems, entryStatus, entryItems, resp,
                   requested, credited, saleAmounts, ledgerVars>>

\* views.py:292-302  the status test on the loaded sale, then sale.save()
save_completed(r) ==
    /\ req[r].pc = "checked"
    /\ IF already_completed(req[r].status)
       THEN /\ req' = [req EXCEPT ![r] = [@ EXCEPT !.pc = "done", !.code = 400,
                                          !.error = "Sale is already completed"]]
            /\ UNCHANGED <<saleStatus, saleAmounts>>
       ELSE /\ saleStatus' = [saleStatus EXCEPT ![req[r].sale] = "completed"]
            /\ saleAmounts' = [saleAmounts EXCEPT ![req[r].sale] = Sale_save(@)]
            /\ req' = [req EXCEPT ![r] = [@ EXCEPT !.pc = "items", !.i = 1,
                                                   !.status = "completed"]]
    /\ UNCHANGED <<directory, stock, saleItems, entryStatus, entryItems, resp, requested, credited,
                   ledgerVars>>

\* views.py:305-320  one turn of the loop, or the response after the last item
decrement_item(r) ==
    /\ req[r].pc = "items"
    /\ LET items == saleItems[req[r].sale]
           i     == req[r].i
       IN  IF i > Len(items)
           THEN /\ req' = [req EXCEPT ![r] = [@ EXCEPT !.pc = "done", !.code = 200]]
                /\ UNCHANGED stock
           ELSE LET product  == items[i].product
                    quantity == items[i].quantity
                    current  == item_product(r, product)
                IN  IF has_stock(current, quantity)
                    THEN /\ stock' = [stock EXCEPT ![product] = current - quantity]
                         /\ req' = [req EXCEPT ![r] =
                                      [@ EXCEPT !.i = i + 1,
                                                !.products[product] = current - quantity]]
                    ELSE /\ req' = [req EXCEPT ![r] =
                                      [@ EXCEPT !.pc = "done", !.code = 400,
                                                !.error = "Insufficient stock"]]
                         /\ UNCHANGED stock
    /\ UNCHANGED <<directory, saleStatus, saleItems, entryStatus, entryItems, resp, requested,
                   credited, saleAmounts, ledgerVars>>

NextConc ==
    \/ \E r \in Reqs, s \in Sales : get_object(r, s)
    \/ \E r \in Reqs : prefetch_products(r)
    \/ \E r \in Reqs : save_completed(r)
    \/ \E r \in Reqs : decrement_item(r)

SpecConc == InitConc /\ [][NextConc]_vars

\* ======================================================================
\* Properties
\* ======================================================================
NonTerminalEntryStatus == {"DRAFT", "PENDING"}

InsufficientStock(r) ==
    r.op = "complete_sale" /\ r.code = 400 /\ r.error = "Insufficient stock"

\* C1: with requests executed one at a time and stocks that start
\* non-negative, no product's current_stock is ever negative, whatever line
\* items the completed sales have (several for one product included).
C1_StockNeverNegative == \A p \in Products : stock[p] >= 0

\* a sale with two items for one product was completed and used up the stock
C1_Witness ==
    /\ resp.op = "complete_sale" /\ resp.code = 200
    /\ Len(saleItems[resp.target]) = 2
    /\ saleItems[resp.target][1].product = saleItems[resp.target][2].product
    /\ stock[saleItems[resp.target][1].product] = 0

\* C2: a complete_sale rejected for insufficient stock leaves every product's
\* current_stock as it was before the request.
C2_NoPartialDecrement ==
    [][InsufficientStock(resp') => stock' = stock]_vars

\* C3: a complete_sale rejected for insufficient stock leaves the sale's
\* status as it was before the request.
C3_StatusKeptOnFailure ==
    [][InsufficientStock(resp') =>
           saleStatus'[resp'.target] = saleStatus[resp'.target]]_vars

\* C4: complete_sale on a sale whose status is completed answers an error and
\* changes neither the sale nor any product's current_stock.
C4_CompletedRejected ==
    [][\A s \in DOMAIN saleStatus :
          (saleStatus[s] = "completed" /\ resp'.op = "complete_sale" /\ resp'.target = s)
          => /\ resp'.code = 400
             /\ resp'.error = "Sale is already completed"
             /\ saleStatus' = saleStatus
             /\ saleItems' = saleItems
             /\ stock' = stock]_vars

\* a completed sale whose items the stock could cover once more was refused
C4_Witness ==
    /\ resp.op = "complete_sale" /\ resp.error = "Sale is already completed"
    /\ Len(saleItems[resp.target]) > 0
    /\ decrement_stocks(saleItems[resp.target], 1, stock, stock).error = "none"

\* C5: complete_sale on a sale in a terminal status (completed or cancelled)
\* answers an error and decrements no stock.
C5_TerminalRejected ==
    [][\A s \in DOMAIN saleStatus :
          (saleStatus[s] \in {"completed", "cancelled"}
             /\ resp'.op = "complete_sale" /\ resp'.target = s)
          => (resp'.code = 400 /\ stock' = stock)]_vars

\* C6: a successful validate_entry on an entry in a non-terminal status adds
\* to every product's current_stock exactly the sum of the quantities of the
\* entry's items for that product (nothing for a product without items).
C6_EntryCreditsStock ==
    [][\A e \in Entries :
          (entryStatus[e] \in NonTerminalEntryStatus
             /\ resp'.op = "validate_entry" /\ resp'.target = e /\ resp'.code = 200)
          => \A p \in Products : stock'[p] = stock[p] + SumQty(entryItems[e], p)]_vars

\* a draft or pending entry with two items of different quantities for one
\* product was validated
C6_Witness ==
    /\ resp.op = "validate_entry" /\ resp.code = 200
    /\ resp.prev \in NonTerminalEntryStatus
    /\ Len(entryItems[resp.target]) = 2
    /\ entryItems[resp.target][1].product = entryItems[resp.target][2].product
    /\ entryItems[resp.target][1].quantity # entryItems[resp.target][2].quantity

\* C7: validate_entry on an entry whose status is COMPLETED answers an error
\* and credits no stock.
C7_CompletedEntryRejected ==
    [][\A e \in Entries :
          (entryStatus[e] = "COMPLETED"
             /\ resp'.op = "validate_entry" /\ resp'.target = e)
          => (resp'.code = 400 /\ stock' = stock)]_vars

C9_EntryStatusInChoices == \A e \in Entries : entryStatus[e] \in STATUS_CHOICES

Finished(r) == req[r].pc = "done"

\* C10: an interleaved complete_sale request is judged on the stock values it
\* loaded itself: if they cover its items it succeeds, if not it is refused,
\* whatever another request has taken from the same products meanwhile.  So
\* two requests that loaded the same stock both succeed when each quantity
\* alone fits, also when their sum does not.
C10_CheckOnLoadedStock ==
    \A r \in Reqs :
        (Finished(r) /\ req[r].error # "Sale is already completed")
        => (req[r].code = 200
            <=> decrement_stocks(saleItems[req[r].sale], 1,
                                 req[r].loaded, req[r].loaded).error = "none")

\* two requests for different sales both succeeded on a product whose stock,
\* as both had loaded it, was smaller than the two quantities together
C10_Witness ==
    \E p \in Products :
        /\ Finished("r1") /\ Finished("r2")
        /\ req["r1"].code = 200 /\ req["r2"].code = 200
        /\ req["r1"].sale # req["r2"].sale
        /\ req["r1"].loaded[p] = req["r2"].loaded[p]
        /\ SumQty(saleItems[req["r1"].sale], p) > 0
        /\ SumQty(saleItems[req["r2"].sale], p) > 0
        /\ req["r1"].loaded[p] < SumQty(saleItems[req["r1"].sale], p)
                                 + SumQty(saleItems[req["r2"].sale], p)

\* C11: once a sale's status is completed or cancelled, no complete_sale or
\* cancel_sale request moves it to another status.
C11_TerminalStatusKept ==
    [][\A s \in DOMAIN saleStatus :
          saleStatus[s] \in {"completed", "cancelled"}
          => saleStatus'[s] = saleStatus[s]]_vars

\* ======================================================================
\* SaleItem rows and their total_price
\* ======================================================================
SaleItemIds == {"i1"}

\* what a client or a caller may put in the fields (whole numbers; the
\* validators of the fields accept quantity >= 0.01, discount >= 0 and
\* 0 <= tax_rate <= 100)
ItemQuantities == {1, 3}
UnitPrices     == {50, 100}
Discounts      == {-10, 0, 10}
TaxRates       == {0, 10, 110}
ClientTotals   == {0, 999}

\* models.py:652-677, the validators of quantity, discount and tax_rate, as
\* the serializer and the admin form run them (save() does not)
SaleItem_valid(data) ==
    /\ data.quantity >= 1
    /\ data.discount >= 0
    /\ data.tax_rate >= 0 /\ data.tax_rate <= 100

\* models.py:694  self.quantity * self.unit_price with unit_price None
\* (the attribute of an instance built without unit_price) raises TypeError
unit_price_missing(row) == row.unit_price = "None"

\* models.py:693-698  SaleItem.save, total_price in hundredths
SaleItem_save_no_tax(row) ==
    [row EXCEPT !.total_price = (row.quantity * row.unit_price - row.discount) * 100]

SaleItem_save(row) ==
    LET base_price       == row.quantity * row.unit_price
        discounted_price == base_price - row.discount
        tax_amount       == discounted_price * row.tax_rate      \* hundredths
    IN  [row EXCEPT !.total_price = discounted_price * 100 + tax_amount]

\* serializers.py:466-488  SaleItemSerializer: the writable fields are
\* quantity, discount and tax_rate; total_price is read-only and unit_price
\* is no field of the serializer
SaleItemSerializer_writable(data) ==
    [quantity |-> data.quantity, discount |-> data.discount, tax_rate |-> data.tax_rate]

SaleItemRequests ==
    [quantity : ItemQuantities, discount : Discounts, tax_rate : TaxRates,
     total_price : ClientTotals]

\* ModelSerializer.update + save(): the validated fields are set on the row
\* loaded from the datastore, then SaleItem.save recomputes the total
SaleItemSerializer_update_trusting(row, data) ==
    [row EXCEPT !.quantity = data.quantity, !.discount = data.discount,
                !.tax_rate = data.tax_rate, !.total_price = data.total_price]

SaleItemSerializer_update(row, data) ==
    LET validated == SaleItemSerializer_writable(data)
    IN  SaleItem_save([row EXCEPT !.quantity = validated.quantity,
                                  !.discount = validated.discount,
                                  !.tax_rate = validated.tax_rate])

\* the other variables of the stock model, untouched by the ledger requests
stockVars == <<stock, saleStatus, saleItems, entryStatus, entryItems, requested,
               credited, req>>

\* POST sale-items/   views.py:364-365, SaleItemSerializer
\* The instance is built from the validated fields, so without unit_price:
\* save() raises TypeError and nothing is inserted.
api_create_sale_item(i, data) ==
    /\ i \notin DOMAIN saleItemRows
    /\ sent' = data.total_price
    /\ LET validated == SaleItemSerializer_writable(data)
           instance  == [quantity |-> validated.quantity, unit_price |-> "None",
                         discount |-> validated.discount,
                         tax_rate |-> validated.tax_rate, total_price |-> 0]
       IN  IF ~SaleItem_valid(data)
           THEN /\ resp' = Response("create_sale_item", i, 400, "invalid", "none")
                /\ UNCHANGED saleItemRows
           ELSE IF unit_price_missing(instance)
           THEN /\ resp' = Response("create_sale_item", i, 500, "TypeError", "none")
                /\ UNCHANGED saleItemRows
           ELSE /\ saleItemRows' = [j \in DOMAIN saleItemRows \cup {i} |->
                                      IF j = i THEN SaleItem_save(instance)
                                      ELSE saleItemRows[j]]
                /\ resp' = Response("create_sale_item", i, 201, "none", "none")
    /\ UNCHANGED <<directory, stockVars, saleAmounts, entryItemRows, expenses, recurring, catalog>>

\* PUT sale-items/<i>/   views.py:367-368, SaleItemSerializer
api_update_sale_item(i, data) ==
    /\ i \in DOMAIN saleItemRows
    /\ sent' = data.total_price
    /\ IF ~SaleItem_valid(data)
       THEN /\ resp' = Response("update_sale_item", i, 400, "invalid", "none")
            /\ UNCHANGED saleItemRows
       ELSE /\ saleItemRows' = [saleItemRows EXCEPT ![i] = SaleItemSerializer_update(@, data)]
            /\ resp' = Response("update_sale_item", i, 200, "none", "none")
    /\ UNCHANGED <<directory, stockVars, saleAmounts, entryItemRows, expenses, recurring, catalog>>

\* admin add / change form of SaleItemAdmin   admin.py:731-737, 37-42
\* (all fields but total_price are editable; the form runs the validators)
admin_save_sale_item(i, fields) ==
    /\ sent' = "none"
    /\ IF ~SaleItem_valid(fields)
       THEN /\ resp' = Response("admin_save_sale_item", i, 200, "form errors", "none")
            /\ UNCHANGED saleItemRows
       ELSE /\ saleItemRows' =
                 [j \in DOMAIN saleItemRows \cup {i} |->
                     IF j = i THEN SaleItem_save([fields EXCEPT !.total_price = 0])
                     ELSE saleItemRows[j]]
            /\ resp' = Response("admin_save_sale_item", i, 302, "none", "none")
    /\ UNCHANGED <<directory, stockVars, saleAmounts, entryItemRows, expenses, recurring, catalog>>

\* item.save() called on an instance whose fields a caller has set: save()
\* runs no validator   models.py:693-698
save_sale_item(i, fields) ==
    /\ i \in DOMAIN saleItemRows
    /\ sent' = "none"
    /\ saleItemRows' = [saleItemRows EXCEPT ![i] =
                          SaleItem_save([@ EXCEPT !.quantity = fields.quantity,
                                                  !.discount = fields.discount,
                                                  !.tax_rate = fields.tax_rate])]
    /\ resp' = Response("save_sale_item", i, 0, "none", "none")
    /\ UNCHANGED <<directory, stockVars, saleAmounts, entryItemRows, expenses, recurring, catalog>>

SaleItemForms ==
    [quantity : ItemQuantities, unit_price : UnitPrices, discount : Discounts,
     tax_rate : TaxRates, total_price : {0}]

InitSaleItem ==
    /\ stock = [p \in Products |-> 0]
    /\ saleItems = [s \in {"s1"} |-> << >>]
    /\ saleStatus = [s \in {"s1"} |-> "pending"]
    /\ entryItems = [e \in Entries |-> << >>]
    /\ entryStatus = [e \in Entries |-> "DRAFT"]
    /\ resp = NoResponse
    /\ requested = [e \in Entries |-> FALSE]
    /\ credited = [e \in Entries |-> [p \in Products |-> 0]]
    /\ req = [r \in Reqs |-> IdleRequest]
    /\ saleAmounts = [s \in {"s1"} |-> DefaultAmounts]
    /\ NoLedger

NextSaleItem ==
    \/ \E i \in SaleItemIds, data \in SaleItemRequests : api_create_sale_item(i, data)
    \/ \E i \in SaleItemIds, data \in SaleItemRequests : api_update_sale_item(i, data)
    \/ \E i \in SaleItemIds, fields \in SaleItemForms : admin_save_sale_item(i, fields)
    \/ \E i \in SaleItemIds, fields \in SaleItemRequests : save_sale_item(i, fields)

SpecSaleItem == InitSaleItem /\ [][NextSaleItem]_vars

Max(a, b) == IF a >= b THEN a ELSE b
Min(a, b) == IF a <= b THEN a ELSE b

EntryItemIds == {"ei1"}

\* whole-number field values, so that the two decimals the datastore keeps
\* hold the product exactly
EntryQuantities  == {0, 1, 2, 3}
EntryUnitPrices  == {0, 10, 20, 30}

\* models.py:413-424, the validators of quantity and unit_price
EntryItem_valid(data) == data.quantity >= 1

EntryItem_form_valid(fields) == fields.quantity >= 1 /\ fields.unit_price >= 0

\* models.py:443-445  EntryItem.save
EntryItem_save_keeps_total(row) == row

EntryItem_save(row) == [row EXCEPT !.total_price = row.quantity * row.unit_price]

\* serializers.py:352-375  EntryItemSerializer: of the three fields only
\* quantity is writable (total_price is read-only, unit_price is no field)
EntryItemRequests == [quantity : EntryQuantities, total_price : ClientTotals]

EntryItemSerializer_update_trusting(row, data) ==
    [row EXCEPT !.quantity = data.quantity, !.total_price = data.total_price]

EntryItemSerializer_update(row, data) ==
    EntryItem_save([row EXCEPT !.quantity = data.quantity])

\* POST entry-items/   views.py:2085-2086
\* The instance has no unit_price: save() raises TypeError, nothing is stored.
api_create_entry_item(i, data) ==
    /\ i \notin DOMAIN entryItemRows
    /\ sent' = data.total_price
    /\ LET instance == [quantity |-> data.quantity, unit_price |-> "None",
                        total_price |-> 0]
       IN  IF ~EntryItem_valid(data)
           THEN /\ resp' = Response("create_entry_item", i, 400, "invalid", "none")
                /\ UNCHANGED entryItemRows
           ELSE IF unit_price_missing(instance)
           THEN /\ resp' = Response("create_entry_item", i, 500, "TypeError", "none")
                /\ UNCHANGED entryItemRows
           ELSE /\ entryItemRows' = [j \in DOMAIN entryItemRows \cup {i} |->
                                       IF j = i THEN EntryItem_save(instance)
                                       ELSE entryItemRows[j]]
                /\ resp' = Response("create_entry_item", i, 201, "none", "none")
    /\ UNCHANGED <<directory, stockVars, saleAmounts, saleItemRows, expenses, recurring, catalog>>

\* PUT entry-items/<i>/   views.py:2088-2089; prev is the quantity before
api_update_entry_item(i, data) ==
    /\ i \in DOMAIN entryItemRows
    /\ sent' = data.total_price
    /\ IF ~EntryItem_valid(data)
       THEN /\ resp' = Response("update_entry_item", i, 400, "invalid", "none")
            /\ UNCHANGED entryItemRows
       ELSE /\ entryItemRows' = [entryItemRows EXCEPT ![i] = EntryItemSerializer_update(@, data)]
            /\ resp' = Response("update_entry_item", i, 200, "none",
                                entryItemRows[i].quantity)
    /\ UNCHANGED <<directory, stockVars, saleAmounts, saleItemRows, expenses, recurring, catalog>>

EntryItemForms == [quantity : EntryQuantities, unit_price : EntryUnitPrices]

\* admin add / change form of EntryItemAdmin   admin.py:542-548, 37-42;
\* prev is the unit price before (none on an add)
admin_save_entry_item(i, fields) ==
    /\ sent' = "none"
    /\ IF ~EntryItem_form_valid(fields)
       THEN /\ resp' = Response("admin_save_entry_item", i, 200, "form errors", "none")
            /\ UNCHANGED entryItemRows
       ELSE /\ entryItemRows' =
                 [j \in DOMAIN entryItemRows \cup {i} |->
                     IF j # i THEN entryItemRows[j]
                     ELSE EntryItem_save(
                            [quantity |-> fields.quantity,
                             unit_price |-> fields.unit_price,
                             total_price |-> IF i \in DOMAIN entryItemRows
                                             THEN entryItemRows[i].total_price
                                             ELSE 0])]
            /\ resp' = Response("admin_save_entry_item", i, 302, "none",
                                IF i \in DOMAIN entryItemRows
                                THEN entryItemRows[i].unit_price ELSE "none")
    /\ UNCHANGED <<directory, stockVars, saleAmounts, saleItemRows, expenses, recurring, catalog>>

InitEntryItem == InitSaleItem

NextEntryItem ==
    \/ \E i \in EntryItemIds, data \in EntryItemRequests : api_create_entry_item(i, data)
    \/ \E i \in EntryItemIds, data \in EntryItemRequests : api_update_entry_item(i, data)
    \/ \E i \in EntryItemIds, fields \in EntryItemForms : admin_save_entry_item(i, fields)

SpecEntryItem == InitEntryItem /\ [][NextEntryItem]_vars

Subtotals       == {-1, 0, 100}
DiscountAmounts == {0, 10}
SaleTaxAmounts  == {0, 5}

\* models.py:575-595, MinValueValidator(0) on the three amounts, as the
\* serializer and the admin form run it
Sale_valid(data) ==
    data.subtotal >= 0 /\ data.discount_amount >= 0 /\ data.tax_amount >= 0

\* serializers.py:530-538  SaleCreateUpdateSerializer: subtotal,
\* discount_amount, tax_amount and status are fields; total_amount and
\* reference are not.  status is a required key to a SaleStatus row.
SaleRequests ==
    [subtotal : Subtotals, discount_amount : DiscountAmounts,
     tax_amount : SaleTaxAmounts, status : SaleStatusCodes \cup {"absent"},
     total_amount : ClientTotals]

SaleCreateUpdateSerializer_update_trusting(row, data) ==
    [row EXCEPT !.subtotal = data.subtotal,
                !.discount_amount = data.discount_amount,
                !.tax_amount = data.tax_amount,
                !.total_amount = data.total_amount]

SaleCreateUpdateSerializer_update(row, data) ==
    Sale_save([row EXCEPT !.subtotal = data.subtotal,
                          !.discount_amount = data.discount_amount,
                          !.tax_amount = data.tax_amount])

\* a row the serializer or the admin form builds: reference is no field of
\* either, so it is the empty string; total_amount has its default
NewSale == [reference |-> "", subtotal |-> 0, discount_amount |-> 0,
            tax_amount |-> 0, total_amount |-> 0]

\* models.py:566  reference is unique
reference_taken(ref) == \E s \in DOMAIN saleAmounts : saleAmounts[s].reference = ref

\* INSERT of a sale row together with its (empty) set of items
insert_sale(s, row, code) ==
    /\ saleAmounts' = [x \in DOMAIN saleAmounts \cup {s} |->
                         IF x = s THEN row ELSE saleAmounts[x]]
    /\ saleStatus' = [x \in DOMAIN saleStatus \cup {s} |->
                         IF x = s THEN code ELSE saleStatus[x]]
    /\ saleItems' = [x \in DOMAIN saleItems \cup {s} |->
                         IF x = s THEN << >> ELSE saleItems[x]]

\* POST sales/   views.py:180-190, SaleCreateUpdateSerializer
api_create_sale(s, data) ==
    /\ s \notin DOMAIN saleStatus
    /\ sent' = data.total_amount
    /\ IF ~Sale_valid(data) \/ data.status = "absent"
       THEN /\ resp' = Response("create_sale", s, 400, "invalid", data.status)
            /\ UNCHANGED <<saleAmounts, saleStatus, saleItems>>
       ELSE IF reference_taken(NewSale.reference)
       THEN /\ resp' = Response("create_sale", s, 500, "IntegrityError", data.status)
            /\ UNCHANGED <<saleAmounts, saleStatus, saleItems>>
       ELSE /\ insert_sale(s, SaleCreateUpdateSerializer_update(NewSale, data),
                           data.status)
            /\ resp' = Response("create_sale", s, 201, "none", data.status)
    /\ UNCHANGED <<directory, stock, entryStatus, entryItems, requested, credited, req,
                   saleItemRows, entryItemRows, expenses, recurring, catalog>>

\* PUT sales/<s>/   views.py:192-193, SaleCreateUpdateSerializer
api_update_sale(s, data) ==
    /\ s \in DOMAIN saleStatus
    /\ sent' = data.total_amount
    /\ IF ~Sale_valid(data) \/ data.status = "absent"
       THEN /\ resp' = Response("update_sale", s, 400, "invalid", saleStatus[s])
            /\ UNCHANGED <<saleAmounts, saleStatus>>
       ELSE /\ saleAmounts' = [saleAmounts EXCEPT ![s] =
                                 SaleCreateUpdateSerializer_update(@, data)]
            /\ saleStatus' = [saleStatus EXCEPT ![s] = data.status]
            /\ resp' = Response("update_sale", s, 200, "none", saleStatus[s])
    /\ UNCHANGED <<directory, stock, saleItems, entryStatus, entryItems, requested, credited, req,
                   saleItemRows, entryItemRows, expenses, recurring, catalog>>

\* admin add / change form of SaleAdmin   admin.py:644-696
\* (subtotal, discount_amount, tax_amount and status are editable,
\* total_amount is read-only, reference is not on the form)
SaleForms ==
    [subtotal : Subtotals, discount_amount : DiscountAmounts,
     tax_amount : SaleTaxAmounts, status : SaleStatusCodes]

admin_save_sale(s, fields) ==
    /\ sent' = "none"
    /\ IF ~Sale_valid(fields)
       THEN /\ resp' = Response("admin_save_sale", s, 200, "form errors", "none")
            /\ UNCHANGED <<saleAmounts, saleStatus, saleItems>>
       ELSE IF s \in DOMAIN saleStatus
       THEN /\ saleAmounts' = [saleAmounts EXCEPT ![s] =
                                 SaleCreateUpdateSerializer_update(@, fields)]
            /\ saleStatus' = [saleStatus EXCEPT ![s] = fields.status]
            /\ UNCHANGED saleItems
            /\ resp' = Response("admin_save_sale", s, 302, "none", saleStatus[s])
       ELSE IF reference_taken(NewSale.reference)
       THEN /\ resp' = Response("admin_save_sale", s, 500, "IntegrityError", "none")
            /\ UNCHANGED <<saleAmounts, saleStatus, saleItems>>
       ELSE /\ insert_sale(s, SaleCreateUpdateSerializer_update(NewSale, fields),
                           fields.status)
            /\ resp' = Response("admin_save_sale", s, 302, "none", "none")
    /\ UNCHANGED <<directory, stock, entryStatus, entryItems, requested, credited, req,
                   saleItemRows, entryItemRows, expenses, recurring, catalog>>

\* serializers.py:394-402  EntryCreateUpdateSerializer: status is an optional
\* choice field; a value outside the choices is refused.  "absent" is a
\* request without the key.
EntryStatusInputs == STATUS_CHOICES \cup {"absent", "validated"}

\* models.py:379-389  Entry.status, default='COMPLETED'
Entry_status_default == "COMPLETED"

\* POST entries/   views.py:1992-1993; prev is the status the client sent.
\* The entry is created without items (they are attached afterwards).
create_entry(e, status_sent) ==
    /\ e \notin DOMAIN entryStatus
    /\ IF status_sent \notin STATUS_CHOICES \cup {"absent"}
       THEN /\ resp' = Response("create_entry", e, 400, "invalid", status_sent)
            /\ UNCHANGED <<entryStatus, entryItems, requested, credited>>
       ELSE /\ entryStatus' = [x \in DOMAIN entryStatus \cup {e} |->
                                 IF x # e THEN entryStatus[x]
                                 ELSE IF status_sent = "absent"
                                      THEN Entry_status_default ELSE status_sent]
            /\ entryItems' = [x \in DOMAIN entryItems \cup {e} |->
                                 IF x = e THEN << >> ELSE entryItems[x]]
            /\ requested' = [x \in DOMAIN requested \cup {e} |->
                                 IF x = e THEN FALSE ELSE requested[x]]
            /\ credited' = [x \in DOMAIN credited \cup {e} |->
                                 IF x = e THEN [p \in Products |-> 0] ELSE credited[x]]
            /\ resp' = Response("create_entry", e, 201, "none", status_sent)
    /\ UNCHANGED <<directory, stock, saleStatus, saleItems, req, saleAmounts, ledgerVars>>

\* ---------------------------------------------------------------- expenses
\* What a foreign-key attribute of an instance may be given: a row of the
\* lookup table (ExpenseStatus, ExpenseCategory), None, or a value of
\* another type such as a str.  Each value carries its Python type.
ExpenseStatusRows ==
    {[type |-> "ExpenseStatus", code |-> c] : c \in {"PENDING", "PAID", "CANCELLED"}}
ExpenseCategories == {[type |-> "ExpenseCategory", code |-> "rent"]}
NoneValue == [type |-> "NoneType", code |-> "None"]
StrValue(s) == [type |-> "str", code |-> s]

ExpenseReferences == {"X1", "X2"}
ExpenseAmounts    == {0, 50, 80}
ExpenseTaxAmounts == {0, 5}

\* models.py:497-509, the validators of amount and tax_amount
Expense_valid(data) == data.amount >= 1 /\ data.tax_amount >= 0

\* models.py:557-559  Expense.save
Expense_save_keeps_total(row) == row

Expense_save(row) == [row EXCEPT !.total_amount = row.amount + row.tax_amount]

\* serializers.py:427-444  ExpenseSerializer: reference, amount and
\* tax_amount are writable; category, status and recurring_expense are
\* read-only nested serializers and total_amount is read-only
ExpenseRequests ==
    [reference : ExpenseReferences, amount : ExpenseAmounts,
     tax_amount : ExpenseTaxAmounts, total_amount : ClientTotals]

ExpenseSerializer_update_trusting(row, data) ==
    [row EXCEPT !.reference = data.reference, !.amount = data.amount,
                !.tax_amount = data.tax_amount, !.total_amount = data.total_amount]

ExpenseSerializer_update(row, data) ==
    Expense_save([row EXCEPT !.reference = data.reference, !.amount = data.amount,
                             !.tax_amount = data.tax_amount])

\* the instance ModelSerializer.create builds from the writable fields
NewExpense == [reference |-> "", category |-> NoneValue, amount |-> 0, tax_amount |-> 0,
               total_amount |-> 0, expense_date |-> 0, status |-> NoneValue,
               recurring_expense |-> 0]

\* models.py:492-496, 526-530  category and status are NOT NULL columns
not_null_violated(row) == row.category = NoneValue \/ row.status = NoneValue

\* models.py:490  reference is unique
expense_reference_taken(ref, except) ==
    \E k \in DOMAIN expenses : k # except /\ expenses[k].reference = ref

\* POST expenses/   views.py:2173-2174, ExpenseSerializer
api_create_expense(data) ==
    /\ sent' = data.total_amount
    /\ LET instance == ExpenseSerializer_update(NewExpense, data)
       IN  IF ~Expense_valid(data) \/ expense_reference_taken(data.reference, 0)
           THEN /\ resp' = Response("create_expense", "none", 400, "invalid", "absent")
                /\ UNCHANGED expenses
           ELSE IF not_null_violated(instance)
           THEN /\ resp' = Response("create_expense", "none", 500, "IntegrityError",
                                    "absent")
                /\ UNCHANGED expenses
           ELSE /\ expenses' = Append(expenses, instance)
                /\ resp' = Response("create_expense", Len(expenses) + 1, 201, "none",
                                    "absent")
    /\ UNCHANGED <<directory, stockVars, saleAmounts, saleItemRows, entryItemRows, recurring,
                   catalog>>

\* PUT expenses/<k>/   views.py:2176-2177, ExpenseSerializer
api_update_expense(k, data) ==
    /\ k \in DOMAIN expenses
    /\ sent' = data.total_amount
    /\ IF ~Expense_valid(data) \/ expense_reference_taken(data.reference, k)
       THEN /\ resp' = Response("update_expense", k, 400, "invalid", "none")
            /\ UNCHANGED expenses
       ELSE /\ expenses' = [expenses EXCEPT ![k] = ExpenseSerializer_update(@, data)]
            /\ resp' = Response("update_expense", k, 200, "none", "none")
    /\ UNCHANGED <<directory, stockVars, saleAmounts, saleItemRows, entryItemRows, recurring,
                   catalog>>

\* --------------------------------- creation and update of sales and entries
\* No sale, no entry and no expense exists yet; products are out of stock.
InitLedger ==
    /\ stock = [p \in Products |-> 0]
    /\ saleItems = << >>
    /\ saleStatus = << >>
    /\ saleAmounts = << >>
    /\ entryItems = << >>
    /\ entryStatus = << >>
    /\ requested = << >>
    /\ credited = << >>
    /\ resp = NoResponse
    /\ req = [r \in Reqs |-> IdleRequest]
    /\ NoLedger

NextLedger ==
    \/ \E s \in Sales, data \in SaleRequests : api_create_sale(s, data)
    \/ \E s \in Sales, data \in SaleRequests : api_update_sale(s, data)
    \/ \E s \in Sales, fields \in SaleForms : admin_save_sale(s, fields)
    \/ \E s \in Sales : complete_sale(s)
    \/ \E s \in Sales : cancel_sale(s)
    \/ \E e \in Entries, status_sent \in EntryStatusInputs : create_entry(e, status_sent)
    \/ \E data \in ExpenseRequests : api_create_expense(data)

SpecLedger == InitLedger /\ [][NextLedger]_vars

\* C12: a record created by a request that names no status is in a
\* non-terminal status: DRAFT or PENDING for an entry (so not COMPLETED),
\* pending for a sale or an expense.
C12_CreatedNonTerminal ==
    (resp.code = 201 /\ resp.prev = "absent") =>
        /\ resp.op = "create_entry" =>
              entryStatus[resp.target] \in NonTerminalEntryStatus
        /\ resp.op = "create_sale" => saleStatus[resp.target] = "pending"
        /\ resp.op = "create_expense" =>
              expenses[resp.target].status.code = "PENDING"

\* C14: every stored sale has total_amount = subtotal - discount_amount +
\* tax_amount, whichever request saved it last (creation, update,
\* complete_sale, cancel_sale).
C14_SaleTotal ==
    \A s \in DOMAIN saleAmounts :
        saleAmounts[s].total_amount
            = saleAmounts[s].subtotal - saleAmounts[s].discount_amount
              + saleAmounts[s].tax_amount

\* complete_sale has saved a sale whose three amounts are all non-zero
C14_Witness ==
    /\ resp.op = "complete_sale" /\ resp.code = 200
    /\ saleAmounts[resp.target].subtotal = 100
    /\ saleAmounts[resp.target].discount_amount = 10
    /\ saleAmounts[resp.target].tax_amount = 5
    /\ saleAmounts[resp.target].total_amount = 95

\* ------------------------------------------- API writes that carry a total
\* One sale item, one entry item and one expense exist (each stored by its
\* save()); the sale is created through the API.
InitApi ==
    /\ stock = [p \in Products |-> 0]
    /\ saleItems = << >>
    /\ saleStatus = << >>
    /\ saleAmounts = << >>
    /\ entryItems = [e \in Entries |-> << >>]
    /\ entryStatus = [e \in Entries |-> "DRAFT"]
    /\ requested = [e \in Entries |-> FALSE]
    /\ credited = [e \in Entries |-> [p \in Products |-> 0]]
    /\ resp = NoResponse
    /\ req = [r \in Reqs |-> IdleRequest]
    /\ saleItemRows = [i \in SaleItemIds |->
                         SaleItem_save([quantity |-> 1, unit_price |-> 100, discount |-> 0,
                                        tax_rate |-> 0, total_price |-> 0])]
    /\ entryItemRows = [i \in EntryItemIds |->
                          EntryItem_save([quantity |-> 1, unit_price |-> 10,
                                          total_price |-> 0])]
    /\ expenses = << Expense_save([NewExpense EXCEPT
                                     !.reference = "X1",
                                     !.category = [type |-> "ExpenseCategory", code |-> "rent"],
                                     !.amount = 50,
                                     !.status = [type |-> "ExpenseStatus", code |-> "PENDING"]]) >>
    /\ recurring = << >>
    /\ catalog = DefaultCatalog
    /\ sent = "none"
    /\ directory = NoDirectory

\* the requests of this specification: one tax rate in range and one out of
\* range, the reference of the stored expense, a sale that stays pending
ApiItemRequests    == {d \in SaleItemRequests : d.tax_rate # 0}
ApiSaleRequests    == {d \in SaleRequests : d.status = "pending"}
ApiExpenseRequests == {d \in ExpenseRequests : d.reference = "X1"}

NextApi ==
    \/ \E data \in ApiItemRequests : api_create_sale_item("i2", data)
    \/ \E i \in SaleItemIds, data \in ApiItemRequests : api_update_sale_item(i, data)
    \/ \E data \in EntryItemRequests : api_create_entry_item("ei2", data)
    \/ \E i \in EntryItemIds, data \in EntryItemRequests : api_update_entry_item(i, data)
    \/ \E data \in ApiSaleRequests : api_create_sale("s1", data)
    \/ \E data \in ApiSaleRequests : api_update_sale("s1", data)
    \/ \E data \in ApiExpenseRequests : api_create_expense(data)
    \/ \E data \in ApiExpenseRequests : api_update_expense(1, data)

SpecApi == InitApi /\ [][NextApi]_vars

ItemWrites    == {"create_sale_item", "update_sale_item"}
EntryWrites   == {"create_entry_item", "update_entry_item"}
SaleWrites    == {"create_sale", "update_sale"}
ExpenseWrites == {"create_expense", "update_expense"}

\* C16: after an API write of a Sale, SaleItem, EntryItem or Expense has
\* been accepted, the stored total of the record is the value recomputed
\* from its other fields, whatever total the request carried.
C16_ClientTotalIgnored ==
    resp.code \in {200, 201} =>
        /\ resp.op \in ItemWrites =>
              LET row == saleItemRows[resp.target]
              IN  row.total_price
                    = (row.quantity * row.unit_price - row.discount) * (100 + row.tax_rate)
        /\ resp.op \in EntryWrites =>
              LET row == entryItemRows[resp.target]
              IN  row.total_price = row.quantity * row.unit_price
        /\ resp.op \in SaleWrites =>
              LET row == saleAmounts[resp.target]
              IN  row.total_amount = row.subtotal - row.discount_amount + row.tax_amount
        /\ resp.op \in ExpenseWrites =>
              LET row == expenses[resp.target]
              IN  row.total_amount = row.amount + row.tax_amount

\* an accepted update of a sale item carried a total that is not the stored one
C16_Witness ==
    /\ resp.op = "update_sale_item" /\ resp.code = 200
    /\ sent = 999
    /\ saleItemRows[resp.target].total_price # sent
    /\ saleItemRows[resp.target].quantity = 3
    /\ saleItemRows[resp.target].tax_rate = 10

\* ======================================================================
\* Recurring expenses and generate_expense
\* ======================================================================
\* models.py:465-474  RecurringExpense.frequency choices
FREQUENCY_CHOICES == {"WEEKLY", "MONTHLY", "QUARTERLY", "YEARLY"}

\* dates, as day numbers
DueDates == {10, 20}
Todays   == {11, 21}

\* ForwardManyToOneDescriptor.__set__ (what assigning Expense.status does):
\* the value must be None or an ExpenseStatus instance, anything else raises
\* ValueError   models.py:526-530
status_assignable(value) == value = NoneValue \/ value.type = "ExpenseStatus"

\* views.py:2144-2149  the new next_due_date; the stored frequency is
\* compared with lower-case literals, and there is no branch for quarterly
next_due_date_after(frequency, next_due_date) ==
    IF frequency = "monthly" THEN next_due_date + 30
    ELSE IF frequency = "weekly" THEN next_due_date + 7
    ELSE IF frequency = "yearly" THEN next_due_date + 365
    ELSE next_due_date

\* POST recurring-expenses/<k>/generate_expense/   views.py:2126-2154
\* prev is what the request met: the current date, the due date of the
\* recurring expense and the number of expenses.  The field requests of the
\* row is history: the number of generate_expense requests it has received.
generate_expense(k, today) ==
    /\ k \in DOMAIN recurring
    /\ recurring[k].requests < MaxRequests
    /\ sent' = "none"
    /\ LET recurring_expense == recurring[k]
           before == [today |-> today,
                      next_due_date |-> recurring_expense.next_due_date,
                      expenses |-> Len(expenses)]
           counted == [recurring_expense EXCEPT !.requests = @ + 1]
           kwargs == [NewExpense EXCEPT
                        !.category = recurring_expense.category,
                        !.amount = recurring_expense.amount,
                        !.expense_date = today,
                        !.recurring_expense = k,
                        !.status = StrValue("pending")]
       IN  IF ~status_assignable(kwargs.status)
           THEN /\ resp' = Response("generate_expense", k, 500, "ValueError", before)
                /\ recurring' = [recurring EXCEPT ![k] = counted]
                /\ UNCHANGED expenses
           ELSE IF expense_reference_taken(kwargs.reference, 0)
           THEN /\ resp' = Response("generate_expense", k, 500, "IntegrityError", before)
                /\ recurring' = [recurring EXCEPT ![k] = counted]
                /\ UNCHANGED expenses
           ELSE /\ expenses' = Append(expenses, Expense_save(kwargs))
                /\ recurring' = [recurring EXCEPT ![k] =
                                   [counted EXCEPT !.next_due_date =
                                      next_due_date_after(recurring_expense.frequency, @)]]
                /\ resp' = Response("generate_expense", k, 201, "none", before)
    /\ UNCHANGED <<directory, stockVars, saleAmounts, saleItemRows, entryItemRows, catalog>>

\* serializers.py:409-421  RecurringExpenseSerializer: amount, frequency and
\* next_due_date are writable, category is read-only
RecurringRequests ==
    [amount : ExpenseAmounts, frequency : FREQUENCY_CHOICES \cup {"monthly"},
     next_due_date : DueDates]

\* PUT recurring-expenses/<k>/   views.py:2110-2111
api_update_recurring(k, data) ==
    /\ k \in DOMAIN recurring
    /\ sent' = "none"
    /\ IF data.amount < 1 \/ data.frequency \notin FREQUENCY_CHOICES
       THEN /\ resp' = Response("update_recurring", k, 400, "invalid", "none")
            /\ UNCHANGED recurring
       ELSE /\ recurring' = [recurring EXCEPT ![k] =
                               [@ EXCEPT !.amount = data.amount,
                                         !.frequency = data.frequency,
                                         !.next_due_date = data.next_due_date]]
            /\ resp' = Response("update_recurring", k, 200, "none", "none")
    /\ UNCHANGED <<directory, stockVars, saleAmounts, saleItemRows, entryItemRows, expenses,
                   catalog>>

\* one recurring expense, of any frequency, and no expense yet
InitExpense ==
    /\ stock = [p \in Products |-> 0]
    /\ saleItems = << >>
    /\ saleStatus = << >>
    /\ saleAmounts = << >>
    /\ entryItems = [e \in Entries |-> << >>]
    /\ entryStatus = [e \in Entries |-> "DRAFT"]
    /\ requested = [e \in Entries |-> FALSE]
    /\ credited = [e \in Entries |-> [p \in Products |-> 0]]
    /\ resp = NoResponse
    /\ req = [r \in Reqs |-> IdleRequest]
    /\ saleItemRows = << >>
    /\ entryItemRows = << >>
    /\ expenses = << >>
    /\ \E f \in FREQUENCY_CHOICES, d \in DueDates :
          recurring = << [category |-> [type |-> "ExpenseCategory", code |-> "rent"],
                          amount |-> 50,
                          frequency |-> f, next_due_date |-> d, requests |-> 0] >>
    /\ catalog = DefaultCatalog
    /\ sent = "none"
    /\ directory = NoDirectory

NextExpense ==
    \/ \E k \in {1}, today \in Todays : generate_expense(k, today)
    \/ \E k \in {1}, data \in RecurringRequests : api_update_recurring(k, data)

SpecExpense == InitExpense /\ [][NextExpense]_vars

\* C17: a generate_expense request has created exactly one Expense, which
\* references the recurring expense, copies its category and amount (so
\* total_amount = amount), is dated today and is pending.
C17_GeneratesOneExpense ==
    resp.op = "generate_expense" =>
        /\ Len(expenses) = resp.prev.expenses + 1
        /\ LET expense == expenses[Len(expenses)]
               recurring_expense == recurring[resp.target]
           IN  /\ expense.recurring_expense = resp.target
               /\ expense.category = recurring_expense.category
               /\ expense.amount = recurring_expense.amount
               /\ expense.total_amount = expense.amount
               /\ expense.expense_date = resp.prev.today
               /\ expense.status.code \in {"pending", "PENDING"}

\* C18: a generate_expense request has moved next_due_date 7 days on for
\* WEEKLY, 30 for MONTHLY, 365 for YEARLY, and to a later date for QUARTERLY.
C18_DueDateAdvances ==
    resp.op = "generate_expense" =>
        LET recurring_expense == recurring[resp.target]
            before == resp.prev.next_due_date
        IN  /\ recurring_expense.frequency = "WEEKLY"
                  => recurring_expense.next_due_date = before + 7
            /\ recurring_expense.frequency = "MONTHLY"
                  => recurring_expense.next_due_date = before + 30
            /\ recurring_expense.frequency = "YEARLY"
                  => recurring_expense.next_due_date = before + 365
            /\ recurring_expense.frequency = "QUARTERLY"
                  => recurring_expense.next_due_date > before

\* C19: every generate_expense request succeeds, and a recurring expense
\* that has received n of them is referenced by n expenses.
C19_OneExpensePerRequest ==
    /\ resp.op = "generate_expense" => resp.code = 201
    /\ \A k \in DOMAIN recurring :
          Cardinality({j \in DOMAIN expenses : expenses[j].recurring_expense = k})
              = recurring[k].requests

\* ======================================================================
\* Low stock: the property of a product and the listing
\* ======================================================================
\* stocks and thresholds a client may store, in hundredths: 5.00 is the
\* default threshold, 5.01 the next value the column can hold
StockLevels == {0, 500, 501, 600}
Thresholds  == {0, 500}

\* models.py:299-301  Product.is_low_stock
is_low_stock(current_stock, alert_threshold) == current_stock <= alert_threshold

\* views.py:1805-1808  filter(current_stock__lte=F('alert_threshold'),
\* is_active=True), evaluated by the datastore on the stored row of p
low_stock_filter_lt(p) ==
    stock[p] < catalog[p].alert_threshold /\ catalog[p].is_active = TRUE

low_stock_filter(p) ==
    stock[p] <= catalog[p].alert_threshold /\ catalog[p].is_active = TRUE

\* the response of a listing: body is the set of the products listed
ListResponse(op, body) ==
    [op |-> op, target |-> "none", code |-> 200, error |-> "none", prev |-> "none",
     body |-> body]

\* GET products/low_stock/   views.py:1802-1810
low_stock ==
    /\ resp' = ListResponse("low_stock", {p \in Products : low_stock_filter(p)})
    /\ UNCHANGED <<directory, stockVars, saleAmounts, ledgerVars>>

\* serializers.py:594-607  ProductCreateSerializer: current_stock,
\* alert_threshold and is_active are writable, both numbers >= 0
ProductRequests ==
    [current_stock : StockLevels \cup {-1}, alert_threshold : Thresholds,
     is_active : BOOLEAN]

\* PUT products/<p>/   views.py:1799-1800
api_update_product(p, data) ==
    /\ IF data.current_stock < 0 \/ data.alert_threshold < 0
       THEN /\ resp' = Response("update_product", p, 400, "invalid", "none")
            /\ UNCHANGED <<stock, catalog>>
       ELSE /\ stock' = [stock EXCEPT ![p] = data.current_stock]
            /\ catalog' = [catalog EXCEPT ![p] =
                             [@ EXCEPT !.alert_threshold = data.alert_threshold,
                                       !.is_active = data.is_active]]
            /\ resp' = Response("update_product", p, 200, "none", "none")
    /\ UNCHANGED <<directory, saleStatus, saleItems, entryStatus, entryItems, requested, credited,
                   req, saleAmounts, saleItemRows, entryItemRows, expenses, recurring,
                   sent>>

\* admin actions on the selected products   admin.py:447-460
\* (queryset.update: no save(), no validator)
mark_as_active(selected) ==
    /\ catalog' = [p \in Products |->
                     IF p \in selected THEN [catalog[p] EXCEPT !.is_active = TRUE]
                     ELSE catalog[p]]
    /\ resp' = Response("mark_as_active", "none", 302, "none", "none")
    /\ UNCHANGED <<directory, stockVars, saleAmounts, saleItemRows, entryItemRows, expenses,
                   recurring, sent>>

mark_as_inactive(selected) ==
    /\ catalog' = [p \in Products |->
                     IF p \in selected THEN [catalog[p] EXCEPT !.is_active = FALSE]
                     ELSE catalog[p]]
    /\ resp' = Response("mark_as_inactive", "none", 302, "none", "none")
    /\ UNCHANGED <<directory, stockVars, saleAmounts, saleItemRows, entryItemRows, expenses,
                   recurring, sent>>

reset_stock_alert(selected) ==
    /\ catalog' = [p \in Products |->
                     IF p \in selected THEN [catalog[p] EXCEPT !.alert_threshold = 500]
                     ELSE catalog[p]]
    /\ resp' = Response("reset_stock_alert", "none", 302, "none", "none")
    /\ UNCHANGED <<directory, stockVars, saleAmounts, saleItemRows, entryItemRows, expenses,
                   recurring, sent>>

\* two products, out of stock, with the default threshold
InitCatalog == InitSaleItem

NextCatalog ==
    \/ low_stock
    \/ \E p \in Products, data \in ProductRequests : api_update_product(p, data)
    \/ \E selected \in SUBSET Products : mark_as_active(selected)
    \/ \E selected \in SUBSET Products : mark_as_inactive(selected)
    \/ \E selected \in SUBSET Products : reset_stock_alert(selected)

SpecCatalog == InitCatalog /\ [][NextCatalog]_vars

\* C20: is_low_stock of a product is true exactly when its stock is at or
\* below its threshold (true at equality, false one hundredth above), and a
\* low_stock listing is exactly the set of the active products whose
\* is_low_stock is true.
C20_LowStockListing ==
    /\ \A p \in Products :
          LET value == is_low_stock(stock[p], catalog[p].alert_threshold)
          IN  /\ value <=> (stock[p] <= catalog[p].alert_threshold)
              /\ stock[p] = catalog[p].alert_threshold => value
              /\ stock[p] = catalog[p].alert_threshold + 1 => ~value
    /\ resp.op = "low_stock" =>
          resp.body = {p \in Products :
                          /\ catalog[p].is_active
                          /\ is_low_stock(stock[p], catalog[p].alert_threshold)}

\* a listing that holds an active product whose stock equals its threshold,
\* and leaves out an active product one hundredth above and an inactive
\* product that is low
C20_Witness ==
    /\ resp.op = "low_stock"
    /\ \E p \in resp.body : stock[p] = catalog[p].alert_threshold /\ stock[p] > 0
    /\ \E p \in Products \ resp.body :
          \/ catalog[p].is_active /\ stock[p] = catalog[p].alert_threshold + 1
          \/ ~catalog[p].is_active /\ stock[p] <= catalog[p].alert_threshold

\* ======================================================================
\* User accounts and reset_password   (users app)
\* ======================================================================
\* directory.users maps the username of each account to its email
Usernames == {"u1", "u2", "u3"}
\* AbstractUser.email is optional and not unique
Emails    == {"a@x.org", "b@x.org"}

\* the answer of a view that carries a message: body is the message
MessageResponse(op, target, code, message) ==
    [op |-> op, target |-> target, code |-> code, error |-> "none", prev |-> "none",
     body |-> message]

\* what django.core.mail.send_mail(fail_silently=False) does: it delivers,
\* or raises the error of the mail backend
MailOutcomes == {"delivered", "SMTPException"}

\* users/views.py:203-236  the answer of reset_password for the submitted
\* email, given the accounts and what the mail backend does
reset_password_response(users, email, mail) ==
    LET matching == {u \in DOMAIN users : users[u] = email}
    IN  IF email = ""
        THEN [code |-> 400, message |-> "Email requis"]
        ELSE IF matching = {}                       \* User.DoesNotExist
        THEN [code |-> 200, message |-> "Si un compte avec cet email existe"]
        ELSE IF Cardinality(matching) > 1           \* MultipleObjectsReturned
        THEN [code |-> 500, message |-> "MultipleObjectsReturned"]
        ELSE IF mail # "delivered"
        THEN [code |-> 500, message |-> mail]
        ELSE [code |-> 200, message |-> "Un email de reinitialisation a ete envoye"]

\* POST users/reset_password/   users/views.py:192-236
reset_password(email, mail) ==
    /\ LET answer == reset_password_response(directory.users, email, mail)
       IN  resp' = MessageResponse("reset_password", email, answer.code, answer.message)
    /\ UNCHANGED <<directory, stockVars, saleAmounts, ledgerVars>>

\* POST users/   users/views.py:89-100, UserCreateSerializer (username is
\* unique, email is any address or empty)
create_user(username, email) ==
    /\ IF username \in DOMAIN directory.users
       THEN /\ resp' = Response("create_user", username, 400, "invalid", "none")
            /\ UNCHANGED directory
       ELSE /\ directory' = [directory EXCEPT !.users =
                               [u \in DOMAIN @ \cup {username} |->
                                   IF u = username THEN email ELSE @[u]]]
            /\ resp' = Response("create_user", username, 201, "none", "none")
    /\ UNCHANGED <<stockVars, saleAmounts, ledgerVars>>

\* DELETE users/<username>/   users/views.py:32-57 (ModelViewSet.destroy)
destroy_user(username) ==
    /\ username \in DOMAIN directory.users
    /\ directory' = [directory EXCEPT !.users =
                       [u \in DOMAIN @ \ {username} |-> @[u]]]
    /\ resp' = Response("destroy_user", username, 204, "none", "none")
    /\ UNCHANGED <<stockVars, saleAmounts, ledgerVars>>

InitUsers == InitSaleItem

NextUsers ==
    \/ \E email \in Emails \cup {""}, mail \in MailOutcomes : reset_password(email, mail)
    \/ \E username \in Usernames, email \in Emails \cup {""} : create_user(username, email)
    \/ \E username \in Usernames : destroy_user(username)

SpecUsers == InitUsers /\ [][NextUsers]_vars

\* C24: the answer of reset_password (status and message) is the same for
\* an email that has an account as for an email that has none.
C24_ResetPasswordUniform ==
    \A known, unknown \in Emails, mail \in MailOutcomes :
        (/\ \E u \in DOMAIN directory.users : directory.users[u] = known
         /\ \A u \in DOMAIN directory.users : directory.users[u] # unknown)
        => reset_password_response(directory.users, known, mail)
             = reset_password_response(directory.users, unknown, mail)

\* ======================================================================
\* adjust_stock
\* ======================================================================
\* request.data['adjustment']: a number (in hundredths), or a text that is
\* no number
Adjustments ==
    {[kind |-> "number", value |-> v] : v \in {-501, -500, -1, 0, 1, 100}}
        \cup {[kind |-> "text", value |-> 0]}

\* views.py:1841  float(adjustment): ValueError on a text that is no number
float_raises_ValueError(raw) == raw.kind = "text"

float(raw) == [type |-> "float", value |-> raw.value]

\* views.py:1842  product.current_stock + adjustment, a Decimal plus the
\* operand: decimal.Decimal adds an int or a Decimal and raises TypeError
\* for a float
Decimal_add_supported(operand) == operand.type \in {"int", "Decimal"}

\* POST products/<p>/adjust_stock/   views.py:1833-1860
\* prev is the stock before the request, body the adjustment sent
adjust_stock(p, raw) ==
    /\ IF float_raises_ValueError(raw)
       THEN /\ resp' = Response("adjust_stock", p, 400, "Invalid adjustment value",
                                stock[p])
            /\ UNCHANGED stock
       ELSE LET adjustment == float(raw)
            IN  IF ~Decimal_add_supported(adjustment)
                THEN /\ resp' = Response("adjust_stock", p, 500, "TypeError", stock[p])
                     /\ UNCHANGED stock
                ELSE IF stock[p] + adjustment.value < 0
                THEN /\ resp' = Response("adjust_stock", p, 400,
                                         "Stock cannot be negative", stock[p])
                     /\ UNCHANGED stock
                ELSE /\ stock' = [stock EXCEPT ![p] = @ + adjustment.value]
                     /\ resp' = Response("adjust_stock", p, 200, "none", stock[p])
    /\ sent' = raw
    /\ UNCHANGED <<directory, saleStatus, saleItems, entryStatus, entryItems, requested,
                   credited, req, saleAmounts, saleItemRows, entryItemRows, expenses,
                   recurring, catalog>>

InitAdjust == InitSaleItem

NextAdjust ==
    \/ \E p \in Products, raw \in Adjustments : adjust_stock(p, raw)
    \/ \E p \in Products, data \in ProductRequests : api_update_product(p, data)

SpecAdjust == InitAdjust /\ [][NextAdjust]_vars

\* C22: an adjust_stock request with a number a on a stock s is refused with
\* 'Stock cannot be negative' and leaves s when s + a < 0, and otherwise
\* succeeds and leaves s + a; the stock is never negative.
C22_AdjustStock ==
    /\ \A p \in Products : stock[p] >= 0
    /\ (resp.op = "adjust_stock" /\ sent.kind = "number") =>
          IF resp.prev + sent.value < 0
          THEN /\ resp.code = 400 /\ resp.error = "Stock cannot be negative"
               /\ stock[resp.target] = resp.prev
          ELSE /\ resp.code = 200
               /\ stock[resp.target] = resp.prev + sent.value

\* ======================================================================
\* bulk_update_products
\* ======================================================================
\* a list of allowed fields that lets current_stock through
allowed_fields_and_stock ==
    {"is_active", "alert_threshold", "selling_price", "category", "current_stock"}

\* views.py:703  allowed_fields
allowed_fields == {"is_active", "alert_threshold", "selling_price", "category"}

\* the keys a client may put in updates, each with the value it sends
UpdateKeys == allowed_fields \cup {"current_stock", "purchase_price"}
UpdateValues ==
    [is_active |-> FALSE, alert_threshold |-> 0, selling_price |-> 250,
     category |-> "c2", current_stock |-> 900, purchase_price |-> 1]

\* product_ids: none, one product, one product and an id that no product
\* has, every product
ProductIdSets == {{}, {"p1"}, {"p2", "p9"}, Products}

\* the keys of updates: none, allowed ones, others, and mixtures
BulkUpdates ==
    {{}, {"is_active"}, {"alert_threshold", "purchase_price"},
     {"selling_price", "category"}, {"current_stock"},
     {"current_stock", "purchase_price"}, {"is_active", "current_stock"},
     UpdateKeys}

\* views.py:712-713  filter(id__in=product_ids).update(**filtered_updates,
\* updated_by=request.user): the row of product p after the UPDATE
bulk_updated_row(p, row, product_ids, filtered_updates) ==
    IF p \notin product_ids THEN row
    ELSE [row EXCEPT
            !.is_active = IF "is_active" \in filtered_updates
                          THEN UpdateValues.is_active ELSE @,
            !.alert_threshold = IF "alert_threshold" \in filtered_updates
                                THEN UpdateValues.alert_threshold ELSE @,
            !.selling_price = IF "selling_price" \in filtered_updates
                              THEN UpdateValues.selling_price ELSE @,
            !.category = IF "category" \in filtered_updates
                         THEN UpdateValues.category ELSE @,
            !.purchase_price = IF "purchase_price" \in filtered_updates
                               THEN UpdateValues.purchase_price ELSE @,
            !.updated_by = "user"]

bulk_updated_stock(p, current_stock, product_ids, filtered_updates) ==
    IF p \in product_ids /\ "current_stock" \in filtered_updates
    THEN UpdateValues.current_stock ELSE current_stock

\* the request of a listing or bulk operation, kept with its answer
BulkResponse(code, error, product_ids, updates) ==
    [op |-> "bulk_update_products", target |-> "none", code |-> code, error |-> error,
     prev |-> "none", body |-> [product_ids |-> product_ids, updates |-> updates]]

\* POST api/bulk-update/   views.py:689-719
\* updates is the set of the keys of the client's updates; an anonymous
\* client (the view allows any) makes the UPDATE raise on updated_by
bulk_update_products(product_ids, updates, authenticated) ==
    /\ LET filtered_updates == updates \cap allowed_fields
       IN  IF product_ids = {} \/ updates = {}
           THEN /\ resp' = BulkResponse(400, "product_ids and updates are required",
                                        product_ids, updates)
                /\ UNCHANGED <<stock, catalog>>
           ELSE IF filtered_updates = {}
           THEN /\ resp' = BulkResponse(400, "No valid fields provided for update",
                                        product_ids, updates)
                /\ UNCHANGED <<stock, catalog>>
           ELSE IF ~authenticated
           THEN /\ resp' = BulkResponse(500, "TypeError", product_ids, updates)
                /\ UNCHANGED <<stock, catalog>>
           ELSE /\ catalog' = [p \in Products |->
                                 bulk_updated_row(p, catalog[p], product_ids,
                                                  filtered_updates)]
                /\ stock' = [p \in Products |->
                               bulk_updated_stock(p, stock[p], product_ids,
                                                  filtered_updates)]
                /\ resp' = BulkResponse(200, "none", product_ids, updates)
    /\ UNCHANGED <<directory, saleStatus, saleItems, entryStatus, entryItems, requested,
                   credited, req, saleAmounts, saleItemRows, entryItemRows, expenses,
                   recurring, sent>>

\* two products with a stock of 5.00
InitBulk ==
    /\ stock = [p \in Products |-> 500]
    /\ saleItems = << >>
    /\ saleStatus = << >>
    /\ saleAmounts = << >>
    /\ entryItems = << >>
    /\ entryStatus = << >>
    /\ requested = << >>
    /\ credited = << >>
    /\ resp = NoResponse
    /\ req = [r \in Reqs |-> IdleRequest]
    /\ NoLedger

NextBulk ==
    \/ \E product_ids \in ProductIdSets, updates \in BulkUpdates,
          authenticated \in BOOLEAN :
          bulk_update_products(product_ids, updates, authenticated)
    \/ \E selected \in SUBSET Products : mark_as_active(selected)
    \/ \E selected \in SUBSET Products : reset_stock_alert(selected)

SpecBulk == InitBulk /\ [][NextBulk]_vars

\* C23: a bulk update changes nothing but is_active, alert_threshold,
\* selling_price, category and updated_by, and only of the products listed in
\* product_ids: no current_stock and no purchase_price changes, no product
\* that is not listed changes, and nothing changes at all when none of the
\* keys of updates is an allowed one.
C23_BulkUpdateFrame ==
    [][resp'.op = "bulk_update_products" =>
         /\ stock' = stock
         /\ \A p \in Products :
               /\ catalog'[p].purchase_price = catalog[p].purchase_price
               /\ p \notin resp'.body.product_ids => catalog'[p] = catalog[p]
         /\ resp'.body.updates \cap allowed_fields = {} => catalog' = catalog]_vars

\* a request for is_active and current_stock on p1 alone was answered: p1 is
\* inactive now, its stock and the other product are as they were
C23_Witness ==
    /\ resp.op = "bulk_update_products"
    /\ resp.code = 200
    /\ resp.body.product_ids = {"p1"}
    /\ resp.body.updates = {"is_active", "current_stock"}
    /\ ~catalog["p1"].is_active
    /\ catalog["p1"].updated_by = "user"
    /\ stock["p1"] = 500
    /\ catalog["p2"] = DefaultCatalog["p2"]

\* ======================================================================
\* complete_sale and cancel_sale, from a known stock
\* ======================================================================
\* one pending sale with any line items; every product has MaxStock in stock
InitOneSale ==
    /\ stock = [p \in Products |-> MaxStock]
    /\ saleItems \in [{"s1"} -> ItemLists]
    /\ saleStatus = [s \in {"s1"} |-> "pending"]
    /\ entryItems = [e \in Entries |-> << >>]
    /\ entryStatus = [e \in Entries |-> "DRAFT"]
    /\ resp = NoResponse
    /\ requested = [e \in Entries |-> FALSE]
    /\ credited = [e \in Entries |-> [p \in Products |-> 0]]
    /\ req = [r \in Reqs |-> IdleRequest]
    /\ saleAmounts = [s \in {"s1"} |-> DefaultAmounts]
    /\ NoLedger

NextOneSale ==
    \/ \E s \in Sales : complete_sale(s)
    \/ \E s \in Sales : cancel_sale(s)

SpecOneSale == InitOneSale /\ [][NextOneSale]_vars

\* C25: over any sequence of complete_sale and cancel_sale requests on one
\* sale, no more than the quantities of the sale's items is ever taken from a
\* product's stock: each item is deducted at most once.
C25_DeductedAtMostOnce ==
    \A p \in Products : MaxStock - stock[p] <= SumQty(saleItems["s1"], p)

InitRace ==
    /\ stock = [p \in Products |-> MaxStock]
    /\ saleItems \in {f \in [Sales -> ItemLists] : f["s2"] \in ShortItemLists}
    /\ saleStatus = [s \in Sales |-> "pending"]
    /\ entryItems = [e \in Entries |-> << >>]
    /\ entryStatus = [e \in Entries |-> "DRAFT"]
    /\ resp = NoResponse
    /\ requested = [e \in Entries |-> FALSE]
    /\ credited = [e \in Entries |-> [p \in Products |-> 0]]
    /\ req = [r \in Reqs |-> IdleRequest]
    /\ saleAmounts = [s \in Sales |-> DefaultAmounts]
    /\ NoLedger

SpecRace == InitRace /\ [][NextConc]_vars

Succeeded(r) == Finished(r) /\ req[r].code = 200

\* C26: of two concurrent complete_sale requests on the same sale at most one
\* succeeds, and together they take the quantities of the sale's items from
\* the stock at most once.
C26_SameSaleOnce ==
    /\ ~(Succeeded("r1") /\ Succeeded("r2") /\ req["r1"].sale = req["r2"].sale)
    /\ (req["r1"].sale = req["r2"].sale /\ req["r1"].sale \in Sales)
       => \A p \in Products :
             MaxStock - stock[p] <= SumQty(saleItems[req["r1"].sale], p)

\* C27: when two interleaved complete_sale requests on different sales both
\* succeed, every product's stock is the initial stock less the quantities of
\* both sales: no decrement is lost.
C27_NoLostDecrement ==
    (Succeeded("r1") /\ Succeeded("r2") /\ req["r1"].sale # req["r2"].sale)
    => \A p \in Products :
          stock[p] = MaxStock - SumQty(saleItems["s1"], p) - SumQty(saleItems["s2"], p)

\* ======================================================================
\* validate_sale_data
\* ======================================================================
\* sale_data, reduced to what the view tests: is a customer (or a customer
\* name) given, is a payment method given
SaleData == [customer : BOOLEAN, payment_method : BOOLEAN]

\* views.py:748-767  the loop over items_data from item i on: the products
\* that are not found become errors, the items that ask for more than the
\* product's stock become warnings
RECURSIVE validate_items(_, _, _, _, _)
validate_items(items_data, i, errors, warnings, total_estimated) ==
    IF i > Len(items_data)
    THEN [errors |-> errors, warnings |-> warnings, total_estimated |-> total_estimated]
    ELSE LET product_id == items_data[i].product
             quantity   == items_data[i].quantity
         IN  IF ~catalog[product_id].is_active
             THEN validate_items(items_data, i + 1,
                                 errors \cup {"Product not found"}, warnings,
                                 total_estimated)
             ELSE validate_items(items_data, i + 1, errors,
                                 IF stock[product_id] < quantity
                                 THEN warnings \cup {product_id} ELSE warnings,
                                 total_estimated
                                   + catalog[product_id].selling_price * quantity)

\* views.py:769-775  is_valid and ready_for_processing
no_errors(errors, warnings) == errors = {}

\* POST api/validate-sale/   views.py:726-777
validate_sale_data(sale_data, items_data) ==
    /\ LET basic == (IF sale_data.customer THEN {}
                     ELSE {"Customer or customer name is required"})
                    \cup (IF sale_data.payment_method THEN {}
                          ELSE {"Payment method is required"})
                    \cup (IF items_data # << >> THEN {}
                          ELSE {"At least one item is required"})
           result == validate_items(items_data, 1, basic, {}, 0)
       IN  resp' = [op |-> "validate_sale_data", target |-> "none", code |-> 200,
                    error |-> "none", prev |-> "none",
                    body |-> [is_valid |-> no_errors(result.errors, result.warnings),
                              ready_for_processing |->
                                  no_errors(result.errors, result.warnings),
                              estimated_total |-> result.total_estimated,
                              errors |-> result.errors,
                              warnings |-> result.warnings,
                              items_count |-> Len(items_data),
                              items_data |-> items_data]]
    /\ UNCHANGED <<directory, stock, saleStatus, saleItems, entryStatus, entryItems,
                   requested, credited, req, saleAmounts, ledgerVars>>

\* one pending sale with at most one line item, any stock
InitValidate ==
    /\ stock \in [Products -> 0..MaxStock]
    /\ saleItems \in [{"s1"} -> ShortItemLists]
    /\ saleStatus = [s \in {"s1"} |-> "pending"]
    /\ entryItems = [e \in Entries |-> << >>]
    /\ entryStatus = [e \in Entries |-> "DRAFT"]
    /\ resp = NoResponse
    /\ requested = [e \in Entries |-> FALSE]
    /\ credited = [e \in Entries |-> [p \in Products |-> 0]]
    /\ req = [r \in Reqs |-> IdleRequest]
    /\ saleAmounts = [s \in {"s1"} |-> DefaultAmounts]
    /\ NoLedger

NextValidate ==
    \/ \E sale_data \in SaleData, items_data \in ItemLists :
          validate_sale_data(sale_data, items_data)
    \/ \E s \in Sales : complete_sale(s)
    \/ \E selected \in SUBSET Products : mark_as_inactive(selected)

SpecValidate == InitValidate /\ [][NextValidate]_vars

\* C28: when validate_sale_data answers is_valid and ready_for_processing,
\* every item asks for no more than its product has in stock, and a
\* complete_sale that follows at once on a sale with exactly these items is
\* not refused for insufficient stock.
C28_ValidIsCompletable ==
    /\ [](resp.op = "validate_sale_data" /\ resp.body.is_valid
                                         /\ resp.body.ready_for_processing
          => \A i \in 1..Len(resp.body.items_data) :
                resp.body.items_data[i].quantity
                    <= stock[resp.body.items_data[i].product])
    /\ [][(/\ resp.op = "validate_sale_data"
           /\ resp.body.is_valid
           /\ resp'.op = "complete_sale"
           /\ saleStatus[resp'.target] = "pending"
           /\ saleItems[resp'.target] = resp.body.items_data)
          => resp'.error # "Insufficient stock"]_vars

\* ======================================================================
\* SaleAdmin: the inline line items and the status actions
\* ======================================================================
\* admin.py:712-719  mark_as_completed: the selected sales get the SaleStatus
\* row whose code is COMPLETED (queryset.update, no save())
mark_as_completed(selected) ==
    /\ saleStatus' = [s \in DOMAIN saleStatus |->
                        IF s \in selected THEN "COMPLETED" ELSE saleStatus[s]]
    /\ resp' = Response("mark_as_completed", "none", 302, "none", "none")
    /\ UNCHANGED <<directory, stock, saleItems, entryStatus, entryItems, requested,
                   credited, req, saleAmounts, ledgerVars>>

\* admin.py:721-728  mark_as_cancelled
mark_as_cancelled(selected) ==
    /\ saleStatus' = [s \in DOMAIN saleStatus |->
                        IF s \in selected THEN "CANCELLED" ELSE saleStatus[s]]
    /\ resp' = Response("mark_as_cancelled", "none", 302, "none", "none")
    /\ UNCHANGED <<directory, stock, saleItems, entryStatus, entryItems, requested,
                   credited, req, saleAmounts, ledgerVars>>

\* admin.py:661-672  the loop over the instances of the formset from i on.
\* obj.product is the Product the row's form loaded when the formset was
\* validated, one instance per row: loaded is the stock as it was then, and
\* each product.save() writes loaded - quantity over the row in the datastore,
\* without a test of the stock.
RECURSIVE formset_decrement(_, _, _, _)
formset_decrement(instances, i, loaded, saved) ==
    IF i > Len(instances) THEN saved
    ELSE LET product  == instances[i].product
             quantity == instances[i].quantity
         IN  formset_decrement(instances, i + 1, loaded,
                               [saved EXCEPT ![product] = loaded[product] - quantity])

\* SaleAdmin.save_formset   admin.py:659-675
\* instances are the rows of the inline formset, all of them new or changed;
\* they become the line items of the sale.  Formsets are followed while no
\* stock is negative.
save_formset(s, instances) ==
    /\ s \in DOMAIN saleStatus
    /\ \A p \in Products : stock[p] >= 0
    /\ saleItems' = [saleItems EXCEPT ![s] = instances]
    /\ stock' = IF saleStatus[s] = "COMPLETED"
                THEN formset_decrement(instances, 1, stock, stock)
                ELSE stock
    /\ resp' = [op |-> "save_formset", target |-> s, code |-> 302, error |-> "none",
                prev |-> stock, body |-> instances]
    /\ UNCHANGED <<directory, saleStatus, entryStatus, entryItems, requested, credited, req,
                   saleAmounts, ledgerVars>>

\* one pending sale without line items, any stock
InitFormset ==
    /\ stock \in [Products -> 0..MaxStock]
    /\ saleItems = [s \in {"s1"} |-> << >>]
    /\ saleStatus = [s \in {"s1"} |-> "pending"]
    /\ entryItems = [e \in Entries |-> << >>]
    /\ entryStatus = [e \in Entries |-> "DRAFT"]
    /\ resp = NoResponse
    /\ requested = [e \in Entries |-> FALSE]
    /\ credited = [e \in Entries |-> [p \in Products |-> 0]]
    /\ req = [r \in Reqs |-> IdleRequest]
    /\ saleAmounts = [s \in {"s1"} |-> DefaultAmounts]
    /\ NoLedger

NextFormset ==
    \/ \E selected \in SUBSET {"s1"} : mark_as_completed(selected)
    \/ \E selected \in SUBSET {"s1"} : mark_as_cancelled(selected)
    \/ \E s \in Sales, instances \in ItemLists \ {<< >>} : save_formset(s, instances)

SpecFormset == InitFormset /\ [][NextFormset]_vars

ImportedNames == {"Q", "Sum", "Count", "Avg", "F"}

\* a name a view function evaluates is bound when it is one of the function's
\* own names or an imported one; any other raises NameError
name_bound(name, locals) == name \in locals \cup ImportedNames

\* a lookup on the ForeignKey Expense.status takes an ExpenseStatus row (or
\* its key); a string that is no key raises when the filter is built
status_lookup_valid(value) == value.type = "ExpenseStatus"

\* the rows the reports read: sales of this month or of the last one, with or
\* without take-away; at most one expense; at most one customer
ReportPeriods == {"current_month", "last_month"}
SaleReportRows ==
    [sale_date : ReportPeriods, total_amount : {100}, is_take_away : BOOLEAN]
ExpenseReportRows ==
    {[NewExpense EXCEPT !.expense_date = d, !.total_amount = 50,
                        !.category = CHOOSE c \in ExpenseCategories : TRUE,
                        !.status = CHOOSE s \in ExpenseStatusRows : TRUE]
       : d \in ReportPeriods}
CustomerRows == [is_active : BOOLEAN, last_sale : {"none", "recent"}]

RECURSIVE SumAmounts(_, _)
SumAmounts(rows, S) ==
    IF S = {} THEN 0
    ELSE LET k == CHOOSE x \in S : TRUE
         IN  rows[k].total_amount + SumAmounts(rows, S \ {k})

\* views.py:247-253  SaleViewSet._calculate_take_away_ratio
calculate_take_away_ratio(sales) ==
    LET total_sales     == Cardinality(DOMAIN sales)
        take_away_sales == Cardinality({s \in DOMAIN sales : sales[s].is_take_away})
    IN  IF total_sales = 0 THEN 0 ELSE (take_away_sales * 10000) \div total_sales

\* GET sales/sales_summary/   views.py:228-245
sales_summary ==
    /\ resp' = [op |-> "sales_summary", target |-> "none", code |-> 200,
                error |-> "none", prev |-> "none",
                body |-> [total_sales |-> Cardinality(DOMAIN saleAmounts),
                          total_revenue |-> SumAmounts(saleAmounts, DOMAIN saleAmounts),
                          take_away_ratio |-> calculate_take_away_ratio(saleAmounts)]]
    /\ UNCHANGED <<directory, stock, saleStatus, saleItems, entryStatus, entryItems,
                   requested, credited, req, saleAmounts, ledgerVars>>

\* views.py:881-887  revenue_growth and expense_growth
growth(current, last) == IF last > 0 THEN ((current - last) * 10000) \div last ELSE 0

\* views.py:907-908  profit_margin_current and profit_margin_last
profit_margin(revenue, expense_total) ==
    IF revenue > 0 THEN ((revenue - expense_total) * 10000) \div revenue ELSE 0

ServerError(op, error) ==
    [op |-> op, target |-> "none", code |-> 500, error |-> error, prev |-> "none",
     body |-> "none"]

\* the one name a function decorated with @api_view binds by itself
ViewLocals == {"request"}

\* GET api/financial-dashboard/   views.py:849-922
\* The growth figures are computed first; then the dictionary filters
\* Expense.status with the string 'pending' (line 912) and calls
\* self._get_top_revenue_products (line 918) in a function without self.
financial_dashboard ==
    /\ LET SalesOf(d)    == {s \in DOMAIN saleAmounts : saleAmounts[s].sale_date = d}
           ExpensesOf(d) == {k \in DOMAIN expenses : expenses[k].expense_date = d}
           current_month_revenue == SumAmounts(saleAmounts, SalesOf("current_month"))
           last_month_revenue    == SumAmounts(saleAmounts, SalesOf("last_month"))
           current_month_expense_total ==
               SumAmounts(expenses, ExpensesOf("current_month"))
           last_month_expense_total == SumAmounts(expenses, ExpensesOf("last_month"))
           dashboard_data ==
               [growth |->
                  [revenue_growth |-> growth(current_month_revenue, last_month_revenue),
                   expense_growth |-> growth(current_month_expense_total,
                                             last_month_expense_total),
                   profit_margin_current |->
                       profit_margin(current_month_revenue, current_month_expense_total),
                   profit_margin_last |->
                       profit_margin(last_month_revenue, last_month_expense_total)]]
       IN  resp' = IF ~status_lookup_valid(StrValue("pending"))
                   THEN ServerError("financial_dashboard", "invalid lookup value")
                   ELSE IF ~name_bound("self", ViewLocals)
                   THEN ServerError("financial_dashboard", "NameError")
                   ELSE [op |-> "financial_dashboard", target |-> "none", code |-> 200,
                         error |-> "none", prev |-> "none", body |-> dashboard_data]
    /\ UNCHANGED <<directory, stock, saleStatus, saleItems, entryStatus, entryItems,
                   requested, credited, req, saleAmounts, ledgerVars>>

\* GET api/inventory-dashboard/   views.py:947-1022
\* top_moving_products is built with Case and When (line 981), which views.py
\* does not import.
inventory_dashboard ==
    /\ LET products        == {p \in Products : catalog[p].is_active}
           total_products  == Cardinality(products)
           value           == [p \in Products |->
                                 [total_amount |-> stock[p] * catalog[p].purchase_price]]
           inventory_value == SumAmounts(value, products)
           dashboard_data ==
               [financial |->
                  [inventory_value |-> inventory_value,
                   average_product_value |->
                       IF total_products > 0 THEN inventory_value \div total_products
                       ELSE 0]]
       IN  resp' = IF ~name_bound("Case", ViewLocals)
                   THEN ServerError("inventory_dashboard", "NameError")
                   ELSE [op |-> "inventory_dashboard", target |-> "none", code |-> 200,
                         error |-> "none", prev |-> "none", body |-> dashboard_data]
    /\ UNCHANGED <<directory, stock, saleStatus, saleItems, entryStatus, entryItems,
                   requested, credited, req, saleAmounts, ledgerVars>>

\* views.py:1157-1167  _calculate_retention_rate
calculate_retention_rate(customers) ==
    LET total_customers     == Cardinality(customers)
        returning_customers ==
            Cardinality({k \in customers : directory.customers[k].last_sale = "recent"})
    IN  IF total_customers = 0 THEN 0
        ELSE (returning_customers * 10000) \div total_customers

\* GET api/customer-analytics/   views.py:1075-1155
\* loyal_customers is built with Max (line 1109), which views.py does not
\* import; the retention rate is asked of self (line 1124).
customer_analytics ==
    /\ LET customers == {k \in DOMAIN directory.customers :
                            directory.customers[k].is_active}
           analytics_data ==
               [overview |->
                  [total_customers |-> Cardinality(customers),
                   customer_retention_rate |-> calculate_retention_rate(customers)]]
       IN  resp' = IF ~name_bound("Max", ViewLocals) \/ ~name_bound("self", ViewLocals)
                   THEN ServerError("customer_analytics", "NameError")
                   ELSE [op |-> "customer_analytics", target |-> "none", code |-> 200,
                         error |-> "none", prev |-> "none", body |-> analytics_data]
    /\ UNCHANGED <<directory, stock, saleStatus, saleItems, entryStatus, entryItems,
                   requested, credited, req, saleAmounts, ledgerVars>>

\* any sales, expenses, customers and active products, none included
InitReports ==
    /\ stock \in [Products -> {0, MaxStock}]
    /\ \E S \in SUBSET Sales :
          /\ saleAmounts \in [S -> SaleReportRows]
          /\ saleItems = [s \in S |-> << >>]
          /\ saleStatus = [s \in S |-> "pending"]
    /\ entryItems = [e \in Entries |-> << >>]
    /\ entryStatus = [e \in Entries |-> "DRAFT"]
    /\ resp = NoResponse
    /\ requested = [e \in Entries |-> FALSE]
    /\ credited = [e \in Entries |-> [p \in Products |-> 0]]
    /\ req = [r \in Reqs |-> IdleRequest]
    /\ saleItemRows = << >>
    /\ entryItemRows = << >>
    /\ expenses \in {<< >>} \cup {<<e>> : e \in ExpenseReportRows}
    /\ recurring = << >>
    /\ \E active \in SUBSET Products :
          catalog = [p \in Products |->
                       [DefaultCatalog[p] EXCEPT !.is_active = p \in active]]
    /\ sent = "none"
    /\ \E customers \in {<< >>} \cup {<<c>> : c \in CustomerRows} :
          directory = [users |-> << >>, customers |-> customers]

NextReports ==
    \/ sales_summary
    \/ financial_dashboard
    \/ inventory_dashboard
    \/ customer_analytics

SpecReports == InitReports /\ [][NextReports]_vars

\* C21: a report asked when no row matches does not fail, and its ratios are
\* 0: the take-away ratio without sales, the revenue and expense growth and
\* the profit margins without sales and expenses, the retention rate without
\* customers, the average product value without products.
C21_EmptyReportsAreZero ==
    /\ (resp.op = "sales_summary" /\ DOMAIN saleAmounts = {})
       => resp.code = 200 /\ resp.body.take_away_ratio = 0
    /\ (resp.op = "financial_dashboard" /\ DOMAIN saleAmounts = {} /\ expenses = << >>)
       => /\ resp.code = 200
          /\ resp.body.growth.revenue_growth = 0
          /\ resp.body.growth.expense_growth = 0
          /\ resp.body.growth.profit_margin_current = 0
          /\ resp.body.growth.profit_margin_last = 0
    /\ (resp.op = "customer_analytics" /\ directory.customers = << >>)
       => resp.code = 200 /\ resp.body.overview.customer_retention_rate = 0
    /\ (resp.op = "inventory_dashboard" /\ \A p \in Products : ~catalog[p].is_active)
       => resp.code = 200 /\ resp.body.financial.average_product_value = 0

====
